---- MODULE Spec2Model ----
(***************************************************************************)
(* A model of blaze/compute/core.py: the compute entry points, the         *)
(* top-down / bottom-up driver, the type-break detector and the leaf       *)
(* allocator with its two module-level globals.                            *)
(***************************************************************************)
EXTENDS Integers, Sequences, FiniteSets, TLC

\* The module-level globals of core.py, the in-flight compute calls (one frame
\* per thread), the interpreter the program runs on, and the argument /
\* return records of direct calls of type_change and makeleaf.
VARIABLES _leaf_cache, _used_tokens, call, interp, tc, ml

vars == <<_leaf_cache, _used_tokens, call, interp, tc, ml>>

(***************************************************************************)
(* Bounds of the model.                                                    *)
(***************************************************************************)
\* longest argument list given to a direct type_change call
MaxLen == 2
\* number of direct makeleaf calls in a behaviour of SpecLeaf
MaxLeafCalls == 4
\* number of direct makeleaf calls made before the compute call in Spec
MaxPreLeaf == 1
\* data payloads are 0..MaxVal
MaxVal == 1
\* longest chain of operations above a leaf in the expressions given to compute
MaxChain == 3

(***************************************************************************)
(* Runtime values.  A value is its runtime type and a payload.             *)
(***************************************************************************)
Types == {"int", "bool", "list", "tuple", "iter", "sql", "dict", "NoneType"}

Val(ty, v) == [ty |-> ty, v |-> v]

\* Python's None, as returned by scope.get(leaf) for an unbound leaf
None == Val("NoneType", 0)

\* token = None
NoToken == -1

\* base = (numbers.Real, basestring, date, datetime); bool is a Real
base == {"int", "bool"}

\* The concrete classes standing for (tuple, list, set) and for the Iterator ABC
Containers == {"list", "tuple"}
Iterators == {"iter"}

\* Python's issubclass on the modelled classes: bool is a subclass of int
issubclass(a, b) == a = b \/ (a = "bool" /\ b = "int")

\* issubtype without the container / iterator pairing
issubtype_nopair(a, b) == issubclass(a, b)

issubtype(a, b) ==
    \/ issubclass(a, b)
    \/ a \in Containers /\ b \in Iterators
    \/ b \in Containers /\ a \in Iterators

type_change(old, new) ==
    IF \A i \in 1..Len(old \o new) : (old \o new)[i].ty \in base
    THEN FALSE
    ELSE IF Len(old) # Len(new)
    THEN TRUE
    ELSE LET new_types == [i \in 1..Len(new) |-> new[i].ty]
             old_types == [i \in 1..Len(old) |-> old[i].ty]
         IN  ~ \A i \in 1..Len(new_types) : issubtype(new_types[i], old_types[i])

\* The interpreters the model lets the program run on.  sorted(..., key=type)
\* compares type objects and dict(...) keeps the last of several equal keys in
\* its iteration order; both orders are arbitrary, so an interpreter is one
\* order of the type objects and one iteration order of equal keys.
Interpreters ==
    { [types |-> <<"NoneType", "bool", "int", "list", "tuple", "iter", "sql", "dict">>,
       last |-> "max"],
      [types |-> <<"dict", "sql", "iter", "tuple", "list", "int", "bool", "NoneType">>,
       last |-> "min"] }

TypeRank(r, t) == CHOOSE i \in 1..Len(r.types) : r.types[i] = t

RECURSIVE InsertByType(_, _, _)
InsertByType(r, x, s) ==
    IF s = <<>> THEN <<x>>
    ELSE IF TypeRank(r, x.ty) < TypeRank(r, Head(s).ty)
         THEN <<x>> \o s
         ELSE <<Head(s)>> \o InsertByType(r, x, Tail(s))

\* sorted(values, key=type): a stable sort by the rank of the runtime type
RECURSIVE sorted_by_type(_, _)
sorted_by_type(r, s) ==
    IF s = <<>> THEN <<>>
    ELSE InsertByType(r, s[Len(s)], sorted_by_type(r, SubSeq(s, 1, Len(s) - 1)))

(***************************************************************************)
(* Expressions.  A node is its operation, display name, shape, token,      *)
(* attached data (resource leaves only) and inputs; equality of records    *)
(* is structural identity.                                                 *)
(***************************************************************************)
Node(op, name, ds, ins) ==
    [op |-> op, name |-> name, ds |-> ds, tok |-> NoToken, dat |-> None, ins |-> ins]

\* Symbol(name, dshape, token)
Symbol(name, ds, token) ==
    [op |-> "Symbol", name |-> name, ds |-> ds, tok |-> token, dat |-> None, ins |-> <<>>]

\* a leaf that carries attached data (the interactive form)
Data(name, ds, dat) ==
    [op |-> "Data", name |-> name, ds |-> ds, tok |-> NoToken, dat |-> dat, ins |-> <<>>]

\* a terminal that is no symbol (a literal)
Lit(name) == Node("Lit", name, "scalar", <<>>)

\* isinstance(x, Symbol): plain symbols and the data-carrying symbols
IsSymbol(e) == e.op \in {"Symbol", "Data"}

RECURSIVE unique(_)
unique(s) ==
    IF s = <<>> THEN <<>>
    ELSE LET r == unique(SubSeq(s, 1, Len(s) - 1))
         IN  IF \E i \in 1..Len(r) : r[i] = s[Len(s)] THEN r ELSE Append(r, s[Len(s)])

RECURSIVE concat(_)
concat(ss) == IF ss = <<>> THEN <<>> ELSE Head(ss) \o concat(Tail(ss))

Range(s) == {s[i] : i \in 1..Len(s)}

\* expr._inputs
_inputs(e) == e.ins

\* expr._leaves(): the terminal symbols reachable from expr, each once
RECURSIVE _leaves(_)
_leaves(e) ==
    IF e.ins = <<>>
    THEN IF IsSymbol(e) THEN <<e>> ELSE <<>>
    ELSE unique(concat([i \in 1..Len(e.ins) |-> _leaves(e.ins[i])]))

\* expr._subterms(): every node of expr
RECURSIVE _subterms(_)
_subterms(e) ==
    {e} \cup UNION {_subterms(e.ins[i]) : i \in 1..Len(e.ins)}

\* e in expr
Contains(expr, e) == e \in _subterms(expr)

\* expr._subs(d): simultaneous substitution, top down
RECURSIVE _subs(_, _)
_subs(e, d) ==
    IF e \in DOMAIN d THEN d[e]
    ELSE [e EXCEPT !.ins = [i \in 1..Len(e.ins) |-> _subs(e.ins[i], d)]]

\* expr._resources(): the data-carrying leaves with their data
_resources(e) ==
    LET rs == {x \in _subterms(e) : x.op = "Data"}
    IN  [x \in rs |-> x.dat]

\* number of nodes of the expression tree
RECURSIVE Size(_)
Size(e) ==
    IF e.ins = <<>> THEN 1
    ELSE LET RECURSIVE Sum(_)
             Sum(i) == IF i = 0 THEN 0 ELSE Size(e.ins[i]) + Sum(i - 1)
         IN  1 + Sum(Len(e.ins))

EmptyMap == [x \in {} |-> None]

(***************************************************************************)
(* The leaf allocator.                                                     *)
(***************************************************************************)
\* _reset_leaves()
_reset_leaves(ctx) == [ctx EXCEPT !.cache = EmptyMap, !.used = {}]

\* for token in itertools.count(): if (name, token) not in _used_tokens: break
FirstFreeToken(name, used) ==
    CHOOSE n \in 0..Cardinality(used) :
        /\ <<name, n>> \notin used
        /\ \A m \in 0..(n - 1) : <<name, m>> \in used

\* makeleaf that does not consult the cache
makeleaf_nocache(expr, ctx) ==
    LET name == IF expr.name # "" THEN expr.name ELSE "_"
        token == IF <<name, NoToken>> \in ctx.used
                 THEN FirstFreeToken(name, ctx.used) ELSE NoToken
        result == Symbol(name, expr.ds, token)
    IN  [sym |-> result,
         ctx |-> [ctx EXCEPT !.used = @ \cup {<<name, token>>},
                             !.cache = (expr :> result) @@ @]]

\* makeleaf that always hands out the token None
makeleaf_notoken(expr, ctx) ==
    LET name == IF expr.name # "" THEN expr.name ELSE "_"
        result == Symbol(name, expr.ds, NoToken)
    IN  IF expr \in DOMAIN ctx.cache
        THEN [sym |-> ctx.cache[expr], ctx |-> ctx]
        ELSE [sym |-> result,
              ctx |-> [ctx EXCEPT !.used = @ \cup {<<name, NoToken>>},
                                  !.cache = (expr :> result) @@ @]]

\* makeleaf(expr) on the allocator state held in ctx
makeleaf(expr, ctx) ==
    LET name == IF expr.name # "" THEN expr.name ELSE "_"
        token == IF <<name, NoToken>> \in ctx.used
                 THEN FirstFreeToken(name, ctx.used) ELSE NoToken
        result == Symbol(name, expr.ds, token)
    IN  IF expr \in DOMAIN ctx.cache
        THEN [sym |-> ctx.cache[expr], ctx |-> ctx]
        ELSE [sym |-> result,
              ctx |-> [ctx EXCEPT !.used = @ \cup {<<name, token>>},
                                  !.cache = (expr :> result) @@ @]]


(***************************************************************************)
(* Results.  A computed value is a runtime value or, where a handler hands *)
(* the expression back, an expression.                                     *)
(***************************************************************************)
NoExpr == Lit("")

VD(d) == [isx |-> FALSE, d |-> d, x |-> NoExpr]

VX(e) == [isx |-> TRUE, d |-> None, x |-> e]

Ret(val, ctx, err) == [val |-> val, ctx |-> ctx, err |-> err]

Logged(ctx, what, which) == [ctx EXCEPT !.log = Append(@, <<what, which>>)]

\* The keyword arguments of a compute call: each option is absent, falsy or
\* an override function (for optimize, one that returns the expression or
\* one that raises NotImplementedError).
NoKwargs == [pre_compute |-> "absent", optimize |-> "absent"]

Kwargs == [pre_compute : {"absent", "falsy", "override"},
           optimize : {"absent", "falsy", "override", "override_ni"}]

Payload(n) == n % (MaxVal + 1)

RECURSIVE SumV(_)
SumV(data) == IF data = <<>> THEN 0 ELSE Head(data).v + SumV(Tail(data))

\* the values of a dict, in some order
RECURSIVE values(_)
values(d) ==
    IF DOMAIN d = {} THEN <<>>
    ELSE LET k == CHOOSE k \in DOMAIN d : TRUE
         IN  <<d[k]>> \o values([x \in DOMAIN d \ {k} |-> d[x]])

\* scope.get(leaf)
get(scope, leaf) == IF leaf \in DOMAIN scope THEN scope[leaf] ELSE None

(***************************************************************************)
(* The hooks.                                                              *)
(***************************************************************************)
\* pre_compute(leaf, data): the default returns data, the override given by
\* the caller materializes a lazy sequence
pre_compute(which, data) ==
    IF which = "override" /\ data.ty = "iter" THEN Val("list", data.v) ELSE data

\* optimize_(expr, *data): the default is registered for (Expr, object) and
\* returns expr; with another number of data arguments the dispatch fails
optimize(which, expr, data) ==
    CASE which = "override" -> [expr |-> expr, err |-> ""]
      [] which = "override_ni" -> [expr |-> expr, err |-> "NotImplementedError"]
      [] OTHER -> IF Len(data) = 1 THEN [expr |-> expr, err |-> ""]
                  ELSE [expr |-> expr, err |-> "NotImplementedError"]

\* post_compute(expr, result, scope): the default returns result
post_compute(expr, result) == result

\* compute_down without the default that hands the expression back
compute_down_nodefault(expr, leaf_data, kw, ctx) ==
    IF Len(leaf_data) = 1 /\ leaf_data[1].ty = "sql"
    THEN Ret(VD(Val("list", leaf_data[1].v)), Logged(ctx, "compute_down", "sql"), "")
    ELSE Ret(VX(expr), ctx, "NotImplementedError")

\* compute_down(expr, *leaf_data, **kwargs).  The default takes the expression
\* alone and returns it (and accepts no keyword); the model registers one
\* backend, which computes any expression over one "sql" source.
compute_down(expr, leaf_data, kw, ctx) ==
    IF leaf_data = <<>>
    THEN IF kw = NoKwargs
         THEN Ret(VX(expr), Logged(ctx, "compute_down", "default"), "")
         ELSE Ret(VX(expr), Logged(ctx, "compute_down", "default"), "TypeError")
    ELSE IF Len(leaf_data) = 1 /\ leaf_data[1].ty = "sql"
    THEN Ret(VD(Val("list", leaf_data[1].v)), Logged(ctx, "compute_down", "sql"), "")
    ELSE Ret(VX(expr), ctx, "NotImplementedError")


(***************************************************************************)
(* Frames.  A frame is one call of the mapping form of compute (or of the  *)
(* single-value form before it delegates): where it is, what it was given, *)
(* the expression and scope it holds, and the allocator state and log of   *)
(* handler applications it works on.                                       *)
(***************************************************************************)
EmptyCtx == [cache |-> EmptyMap, used |-> {}, log |-> <<>>]

NoArg == [kind |-> "value", s |-> EmptyMap, d |-> None]

ScopeArg(s) == [kind |-> "scope", s |-> s, d |-> None]

ValueArg(d) == [kind |-> "value", s |-> EmptyMap, d |-> d]

IdleFrame ==
    [pc |-> "idle", expr0 |-> NoExpr, arg0 |-> NoArg, kwargs |-> NoKwargs,
     expr |-> NoExpr, scope |-> EmptyMap, kw |-> NoKwargs, top |-> NoExpr,
     val |-> VD(None), err |-> "", via |-> "", rounds |-> 0, ctx |-> EmptyCtx]

\* the frame of compute(expr, d, **kwargs) entering the mapping form
MappingFrame(expr, d, kwargs, ctx) ==
    [IdleFrame EXCEPT !.pc = "reset", !.expr0 = expr, !.arg0 = ScopeArg(d),
                      !.kwargs = kwargs, !.expr = expr, !.scope = d, !.ctx = ctx]

Raise(F, err) == [F EXCEPT !.pc = "done", !.err = err]

RECURSIVE bottom_up_until_type_break(_, _, _, _)
RECURSIVE bottom_up_inputs(_, _, _, _)
RECURSIVE compute_up(_, _, _, _, _)
RECURSIVE compute_up_seq(_, _, _, _)
RECURSIVE step(_, _)
RECURSIVE run(_, _)

\* compute_up(seq, scope=None, **kwargs) for a list or tuple of expressions:
\* type(seq)(compute(item, scope or {}, **kwargs) for item in seq).
\* one is the first item's call, rest the results of the items after it.
compute_up_seq_cons(one, rest) ==
    [vals |-> <<one.val.d>> \o rest.vals, ctx |-> rest.ctx, err |-> rest.err]

compute_up_seq_rest(seq, scope, r, one) ==
    IF one.err # "" THEN [vals |-> <<>>, ctx |-> one.ctx, err |-> one.err]
    ELSE compute_up_seq_cons(one, compute_up_seq(Tail(seq), scope, r, one.ctx))

compute_up_seq(seq, scope, r, ctx) ==
    IF seq = <<>> THEN [vals |-> <<>>, ctx |-> ctx, err |-> ""]
    ELSE compute_up_seq_rest(seq, scope, r,
                             run(MappingFrame(Head(seq), scope, NoKwargs, ctx), r))

compute_up_seq_value(items) ==
    Ret(VD(Val("list", Payload(SumV(items.vals)))), items.ctx, items.err)

\* compute_up(expr, *data, scope=scope).  The default raises
\* NotImplementedError; the model registers an in-memory backend for the
\* operations map, reduce, lt and tolist, and a handler for seq that computes the
\* inputs of the node as a list of expressions.
compute_up(expr, data, scope, r, ctx) ==
    LET inmem == \A i \in 1..Len(data) : data[i].ty \in {"int", "bool", "list", "tuple", "iter"}
    IN  CASE expr.op = "map" /\ inmem /\ data # <<>> ->
               Ret(VD(Val(data[1].ty, Payload(SumV(data) + 1))),
                   Logged(ctx, "compute_up", "map"), "")
          [] expr.op = "reduce" /\ inmem /\ data # <<>> ->
               Ret(VD(Val("int", Payload(SumV(data)))),
                   Logged(ctx, "compute_up", "reduce"), "")
          [] expr.op = "lt" /\ inmem /\ data # <<>> ->
               Ret(VD(Val("bool", Payload(SumV(data)))),
                   Logged(ctx, "compute_up", "lt"), "")
          [] expr.op = "tolist" /\ inmem /\ data # <<>> ->
               Ret(VD(Val("list", Payload(SumV(data)))),
                   Logged(ctx, "compute_up", "tolist"), "")
          [] expr.op = "seq" /\ inmem ->
               compute_up_seq_value(
                   compute_up_seq(expr.ins, scope, r, Logged(ctx, "compute_up", "seq")))
          [] OTHER -> Ret(VD(None), ctx, "NotImplementedError")

\* [bottom_up_until_type_break(i, scope) for i in inputs] with the scopes merged
\* (line 321-324); one is the result for the first input, rest for the others.
\* the reduced inputs with the scope of the first input only
bottom_up_inputs_cons_nomerge(one, rest) ==
    [exprs |-> <<one.expr>> \o rest.exprs, scope |-> one.scope,
     ctx |-> rest.ctx, err |-> rest.err]

bottom_up_inputs_cons(one, rest) ==
    [exprs |-> <<one.expr>> \o rest.exprs, scope |-> rest.scope @@ one.scope,
     ctx |-> rest.ctx, err |-> rest.err]

bottom_up_inputs_rest(inputs, scope, r, one) ==
    IF one.err # ""
    THEN [exprs |-> <<>>, scope |-> EmptyMap, ctx |-> one.ctx, err |-> one.err]
    ELSE bottom_up_inputs_cons(one, bottom_up_inputs(Tail(inputs), scope, r, one.ctx))

bottom_up_inputs(inputs, scope, r, ctx) ==
    IF inputs = <<>> THEN [exprs |-> <<>>, scope |-> EmptyMap, ctx |-> ctx, err |-> ""]
    ELSE bottom_up_inputs_rest(inputs, scope, r,
                               bottom_up_until_type_break(Head(inputs), scope, r, ctx))

\* lines 315-317: expr is a key of the scope; leaf is makeleaf(expr)
bottom_up_key(expr, scope, leaf) ==
    [expr |-> leaf.sym, scope |-> (leaf.sym :> scope[expr]), ctx |-> leaf.ctx,
     err |-> "", broke |-> FALSE]

\* line 338: up is the result of compute_up
bottom_up_return(leaf, up) ==
    [expr |-> leaf.sym, scope |-> (leaf.sym :> up.val.d), ctx |-> up.ctx,
     err |-> up.err, broke |-> FALSE]

\* lines 336-338: no break; leaf is makeleaf(expr)
bottom_up_evaluate(new_expr, new_scope, r, leaf) ==
    LET ins == _inputs(new_expr)
    IN  IF \E i \in 1..Len(ins) : ins[i] \notin DOMAIN new_scope
        THEN [expr |-> new_expr, scope |-> new_scope, ctx |-> leaf.ctx,
              err |-> "KeyError", broke |-> FALSE]
        ELSE bottom_up_return(leaf,
                 compute_up(new_expr, [i \in 1..Len(ins) |-> new_scope[ins[i]]],
                            new_scope, r, leaf.ctx))

\* the break test with its arguments in the order of the parameters (old, new)
bottom_up_break_swapped(r, new_scope, old_data_leaves) ==
    type_change(sorted_by_type(r, old_data_leaves), sorted_by_type(r, values(new_scope)))

\* the break test with only the new values sorted
bottom_up_break_unsorted(r, new_scope, old_data_leaves) ==
    type_change(sorted_by_type(r, values(new_scope)), old_data_leaves)

\* lines 332-333
bottom_up_break(r, new_scope, old_data_leaves) ==
    type_change(sorted_by_type(r, values(new_scope)), sorted_by_type(r, old_data_leaves))

\* lines 324-338: sub is the result of reducing the inputs
bottom_up_merge(expr, scope, r, inputs, sub) ==
    LET new_scope == sub.scope
        changed == {i \in 1..Len(inputs) : inputs[i] # sub.exprs[i]}
        new_expr == _subs(expr, [x \in {inputs[i] : i \in changed} |->
                                   sub.exprs[CHOOSE i \in changed : inputs[i] = x]])
        old_expr_leaves == _leaves(expr)
        old_data_leaves == [i \in 1..Len(old_expr_leaves) |-> get(scope, old_expr_leaves[i])]
    IN  IF sub.err # ""
        THEN [expr |-> expr, scope |-> EmptyMap, ctx |-> sub.ctx, err |-> sub.err,
              broke |-> FALSE]
        ELSE IF bottom_up_break(r, new_scope, old_data_leaves)
        THEN [expr |-> new_expr, scope |-> new_scope, ctx |-> sub.ctx, err |-> "",
              broke |-> TRUE]
        ELSE bottom_up_evaluate(new_expr, new_scope, r, makeleaf(expr, sub.ctx))

bottom_up_until_type_break(expr, scope, r, ctx) ==
    IF expr \in DOMAIN scope
    THEN bottom_up_key(expr, scope, makeleaf(expr, ctx))
    ELSE IF _inputs(expr) = <<>>
    THEN [expr |-> expr, scope |-> EmptyMap, ctx |-> ctx, err |-> "ValueError",
          broke |-> FALSE]
    ELSE bottom_up_merge(expr, scope, r, unique(_inputs(expr)),
                         bottom_up_inputs(unique(_inputs(expr)), scope, r, ctx))

RECURSIVE LogTimes(_, _, _, _)
LogTimes(ctx, n, what, which) ==
    IF n = 0 THEN ctx ELSE LogTimes(Logged(ctx, what, which), n - 1, what, which)

\* kwargs.get('pre_compute', pre_compute) and kwargs.get('optimize', optimize)
Hook(option) == IF option = "absent" THEN "default" ELSE option

\* the entry that dict(...) keeps when several items have the same key
LastOf(r, ds) ==
    CHOOSE d \in ds : \A e \in ds :
        LET kd == TypeRank(r, d.ty) * (MaxVal + 1) + d.v
            ke == TypeRank(r, e.ty) * (MaxVal + 1) + e.v
        IN  IF r.last = "max" THEN ke <= kd ELSE kd <= ke

\* the merge with the derived bindings last, so that they win
swap_resources_into_scope_resfirst(expr, scope, r) ==
    LET resources == _resources(expr)
        symbol_dict == [t \in DOMAIN resources |-> Symbol(t.name, t.ds, NoToken)]
        syms == {symbol_dict[t] : t \in DOMAIN resources}
        resources2 == [k \in syms |->
                         LastOf(r, {resources[t] : t \in {u \in DOMAIN resources :
                                                           symbol_dict[u] = k}})]
    IN  [expr |-> _subs(expr, symbol_dict), scope |-> resources2 @@ scope]

\* lines 384-390; toolz.merge(resources, scope) lets the later dict win
swap_resources_into_scope(expr, scope, r) ==
    LET resources == _resources(expr)
        symbol_dict == [t \in DOMAIN resources |-> Symbol(t.name, t.ds, NoToken)]
        syms == {symbol_dict[t] : t \in DOMAIN resources}
        resources2 == [k \in syms |->
                         LastOf(r, {resources[t] : t \in {u \in DOMAIN resources :
                                                           symbol_dict[u] = k}})]
    IN  [expr |-> _subs(expr, symbol_dict), scope |-> scope @@ resources2]

\* the single-value form calling the driver itself, not the mapping form
compute_single_direct(F) ==
    LET ts == {x \in _subterms(F.expr0) : IsSymbol(x)}
    IN  IF Cardinality(ts) = 1
        THEN [F EXCEPT !.pc = "drive", !.expr = F.expr0, !.top = F.expr0, !.kw = F.kwargs,
                       !.scope = ((CHOOSE x \in ts : TRUE) :> F.arg0.d)]
        ELSE Raise(F, "ValueError")

\* the single-value form binding the first symbol when there are several
compute_single_first(F) ==
    LET ts == {x \in _subterms(F.expr0) : IsSymbol(x)}
    IN  IF Cardinality(ts) >= 1
        THEN [F EXCEPT !.pc = "reset", !.expr = F.expr0,
                       !.scope = ((CHOOSE x \in ts : TRUE) :> F.arg0.d)]
        ELSE Raise(F, "ValueError")

\* The single-value form up to its call of the mapping form (lines 67-71).
compute_single(F) ==
    LET ts == {x \in _subterms(F.expr0) : IsSymbol(x)}
    IN  IF Cardinality(ts) = 1
        THEN [F EXCEPT !.pc = "reset", !.expr = F.expr0,
                       !.scope = ((CHOOSE x \in ts : TRUE) :> F.arg0.d)]
        ELSE Raise(F, "ValueError")


\* the mapping form going on to optimize without applying pre_compute_
compute_pre_skipped(F) == [F EXCEPT !.pc = "opt"]

\* pre_compute_ applied to every bound value (lines 409-412)
compute_pre(F) ==
    IF F.kwargs.pre_compute = "falsy" THEN [F EXCEPT !.pc = "opt"]
    ELSE [F EXCEPT !.pc = "opt",
                   !.scope = [e \in DOMAIN F.scope |->
                                 pre_compute(Hook(F.kwargs.pre_compute), F.scope[e])],
                   !.ctx = LogTimes(@, Cardinality(DOMAIN F.scope), "pre_compute",
                                    Hook(F.kwargs.pre_compute))]

\* optimize_ applied to the bound expression (lines 414-420)
compute_optimize(F, r) ==
    IF F.kwargs.optimize = "falsy"
    THEN [F EXCEPT !.pc = "drive", !.top = F.expr, !.kw = F.kwargs]
    ELSE LET data == values([e \in {k \in DOMAIN F.scope : Contains(F.expr, k)} |->
                               F.scope[e]])
             o == optimize(Hook(F.kwargs.optimize), F.expr, data)
             expr3 == IF o.err = "" THEN o.expr ELSE F.expr
         IN  [F EXCEPT !.pc = "drive", !.expr = expr3, !.top = expr3, !.kw = F.kwargs,
                       !.ctx = Logged(@, "optimize", Hook(F.kwargs.optimize))]

\* Lines 152-171 of top_then_bottom_then_top_again_etc(expr, scope, **kw):
\* bu is the result of bottom_up_until_type_break(expr, scope).
driver_reoptimize(F, bu) ==
    LET new_expr == bu.expr
        new_scope == bu.scope
        pre == F.kw.pre_compute # "falsy"
        new_scope2 == IF pre THEN [e \in DOMAIN new_scope |->
                                     pre_compute("default", new_scope[e])]
                      ELSE new_scope
        ctx2 == IF pre THEN LogTimes(bu.ctx, Cardinality(DOMAIN new_scope),
                                     "pre_compute", "default")
                ELSE bu.ctx
        lv == _leaves(new_expr)
        o == optimize(Hook(F.kw.optimize), new_expr,
                      [i \in 1..Len(lv) |-> new_scope2[lv[i]]])
        new_expr2 == IF o.err = "" THEN o.expr ELSE new_expr
    IN  IF bu.err # "" THEN [Raise(F, bu.err) EXCEPT !.ctx = bu.ctx]
        ELSE IF F.kw.optimize = "falsy"
        THEN [F EXCEPT !.expr = new_expr, !.scope = new_scope2, !.kw = NoKwargs,
                       !.rounds = @ + 1, !.via = "recurse", !.ctx = ctx2]
        ELSE IF \E i \in 1..Len(lv) : lv[i] \notin DOMAIN new_scope2
        THEN [Raise(F, "KeyError") EXCEPT !.ctx = ctx2]
        ELSE [F EXCEPT !.expr = new_expr2, !.scope = new_scope2, !.kw = NoKwargs,
                       !.rounds = @ + 1, !.via = "recurse",
                       !.ctx = Logged(ctx2, "optimize", Hook(F.kw.optimize))]

\* the driver without the except clause around compute_down
driver_after_down_nocatch(F, r, down) ==
    IF down.err = ""
    THEN [F EXCEPT !.pc = "post", !.val = down.val, !.via = "compute_down",
                   !.ctx = down.ctx]
    ELSE [Raise(F, down.err) EXCEPT !.ctx = down.ctx]

\* lines 143-150: down is the result of compute_down(expr, *leaf_data, **kw)
driver_after_down(F, r, down) ==
    IF down.err = ""
    THEN [F EXCEPT !.pc = "post", !.val = down.val, !.via = "compute_down",
                   !.ctx = down.ctx]
    ELSE IF down.err # "NotImplementedError"
    THEN [Raise(F, down.err) EXCEPT !.ctx = down.ctx]
    ELSE driver_reoptimize(F, bottom_up_until_type_break(F.expr, F.scope, r, down.ctx))

\* the driver handing every value of the scope to compute_down
top_then_bottom_then_top_again_etc_allvalues(F, r) ==
    IF F.expr \in DOMAIN F.scope
    THEN [F EXCEPT !.pc = "post", !.val = VD(F.scope[F.expr]), !.via = "key"]
    ELSE driver_after_down(F, r, compute_down(F.expr, values(F.scope), F.kw, F.ctx))

\* One round of top_then_bottom_then_top_again_etc(expr, scope, **kw); the
\* call in tail position (line 171) is the next round.
top_then_bottom_then_top_again_etc(F, r) ==
    IF F.expr \in DOMAIN F.scope
    THEN [F EXCEPT !.pc = "post", !.val = VD(F.scope[F.expr]), !.via = "key"]
    ELSE driver_after_down(F, r,
             compute_down(F.expr,
                          [i \in 1..Len(_leaves(F.expr)) |-> get(F.scope, _leaves(F.expr)[i])],
                          F.kw, F.ctx))

\* The next stage of the mapping form of compute (lines 404-422).
step(F, r) ==
    CASE F.pc = "single" -> compute_single(F)
      [] F.pc = "reset" -> [F EXCEPT !.pc = "swap", !.ctx = _reset_leaves(@)]
      [] F.pc = "swap" ->
           LET b == swap_resources_into_scope(F.expr, F.scope, r)
           IN  [F EXCEPT !.pc = "pre", !.expr = b.expr, !.scope = b.scope]
      [] F.pc = "pre" -> compute_pre(F)
      [] F.pc = "opt" -> compute_optimize(F, r)
      [] F.pc = "drive" -> top_then_bottom_then_top_again_etc(F, r)
      [] F.pc = "post" ->
           [F EXCEPT !.pc = "done", !.val = post_compute(F.top, F.val),
                     !.ctx = Logged(@, "post_compute", "default")]
      [] OTHER -> F

\* a call run to its return or to the exception it raises
run(F, r) == IF F.pc \in {"done", "idle"} THEN F ELSE run(step(F, r), r)

\* compute(expr, d, **kwargs) as one call
compute(expr, d, kwargs, r, ctx) == run(MappingFrame(expr, d, kwargs, ctx), r)


(***************************************************************************)
(* The expressions, scopes and options the calls are given.                *)
(***************************************************************************)
T == Symbol("t", "var", NoToken)

U == Symbol("u", "var", NoToken)

\* a symbol no modelled expression refers to
W == Symbol("w", "var", NoToken)

\* an elementwise operation keeps the name and shape of its first input
Map(e) == Node("map", e.name, e.ds, <<e>>)

Bin(a, b) == Node("map", a.name, a.ds, <<a, b>>)

Reduce(e) == Node("reduce", "sum", "scalar", <<e>>)

Tolist(e) == Node("tolist", "", "var", <<e>>)

\* a comparison with a constant: a boolean of the shape of its input
Lt(e) == Node("lt", e.name, e.ds, <<e>>)

\* an operation no backend has a compute_up handler for
NoImpl(e) == Node("noimpl", e.name, e.ds, <<e>>)

Seq2(a, b) == Node("seq", "", "var", <<a, b>>)

RECURSIVE Chains(_, _)
Chains(leaf, n) ==
    IF n = 0 THEN {leaf}
    ELSE LET below == Chains(leaf, n - 1)
         IN  below \cup {Map(e) : e \in below} \cup {Reduce(e) : e \in below}

DataT0 == Data("t", "var", Val("list", 0))

DataT1 == Data("t", "var", Val("list", 1))

LitC == Lit("c")

UnaryExprs ==
    Chains(T, MaxChain) \cup {Tolist(T), NoImpl(T), Map(NoImpl(T)), Tolist(Reduce(T))}

BinaryExprs ==
    {Bin(x, y) : x \in {T, Map(T), Map(Reduce(T))}, y \in {T, U, Tolist(U), Map(T)}}
      \cup {Seq2(x, y) : x \in {T, Map(T), Map(Reduce(T))}, y \in {T, U}}
      \cup {Map(Seq2(Map(Reduce(T)), U)), Bin(Map(T), Reduce(Map(T))), Bin(U, Lt(T))}

ClosedExprs == {LitC, Map(LitC)}

ResourceExprs == {DataT0, Map(DataT0), Bin(DataT0, DataT1), Bin(T, DataT0), Bin(DataT0, U)}

CallExprs == UnaryExprs \cup BinaryExprs \cup ClosedExprs \cup ResourceExprs

\* the values the sources are bound to
TData == {Val("list", 0), Val("int", 1), Val("iter", 0), Val("sql", 0), Val("bool", 1)}

UData == {Val("list", 1), Val("int", 0)}

\* a dict given as the data itself
DictData == Val("dict", 0)

\* the scopes given with expr: its symbols bound or not, and possibly expr
\* itself or an unrelated symbol as a further key
ScopesFor(expr) ==
    LET syms == {x \in _subterms(expr) : x.op = "Symbol"}
        forT == IF T \in syms THEN {(T :> d) : d \in TData} \cup {EmptyMap} ELSE {EmptyMap}
        forU == IF U \in syms THEN {(U :> d) : d \in UData} \cup {EmptyMap} ELSE {EmptyMap}
        plain == {a @@ b : a \in forT, b \in forU}
        extra == {EmptyMap, (W :> Val("list", 1)), (expr :> Val("list", 1))}
    IN  {a @@ b : a \in plain, b \in IF expr.ins = <<>> \/ Size(expr) > 2 THEN {EmptyMap} ELSE extra}
          \cup {(expr :> Val("int", 0)), (W :> Val("iter", 1))}

CallKwargs ==
    {k \in Kwargs : k.pre_compute = "absent" \/ k.optimize = "absent"
                      \/ (k.pre_compute = "falsy" /\ k.optimize = "falsy")}

\* the calls two threads make at the same time
ConcExprs == {Map(T), Reduce(Map(T)), Map(Reduce(T)), Map(Map(T))}

Concurrent == Cardinality(DOMAIN call) > 1

(***************************************************************************)
(* The state machine.                                                      *)
(***************************************************************************)
NoTC == [old |-> <<>>, new |-> <<>>, res |-> FALSE, done |-> FALSE]

NoML == [fn |-> "", n |-> 0, arg |-> NoExpr, ret |-> NoExpr, hit |-> FALSE, hist |-> <<>>]

\* the frame of thread p working on the module-level allocator state
Load(p) == [call[p] EXCEPT !.ctx.cache = _leaf_cache, !.ctx.used = _used_tokens]

Store(F) == [F EXCEPT !.ctx.cache = EmptyMap, !.ctx.used = {}]

Apply(p, G) ==
    /\ call' = [call EXCEPT ![p] = Store(G)]
    /\ _leaf_cache' = G.ctx.cache
    /\ _used_tokens' = G.ctx.used
    /\ UNCHANGED <<interp, tc, ml>>

Init ==
    /\ _leaf_cache = EmptyMap
    /\ _used_tokens = {}
    /\ call = [p \in {1} |-> IdleFrame]
    /\ interp \in Interpreters
    /\ tc = NoTC
    /\ ml = NoML

\* A direct call makeleaf(e), before any compute call is made.
MakeleafCall(e, max) ==
    /\ \A p \in DOMAIN call : call[p].pc = "idle"
    /\ ml.n < max
    /\ LET m == makeleaf(e, [EmptyCtx EXCEPT !.cache = _leaf_cache, !.used = _used_tokens])
       IN  /\ _leaf_cache' = m.ctx.cache
           /\ _used_tokens' = m.ctx.used
           /\ ml' = [fn |-> "makeleaf", n |-> ml.n + 1, arg |-> e, ret |-> m.sym,
                     hit |-> e \in DOMAIN _leaf_cache,
                     hist |-> IF e \in DOMAIN _leaf_cache THEN ml.hist
                              ELSE Append(ml.hist, <<e, m.sym>>)]
    /\ UNCHANGED <<call, interp, tc>>

\* compute(expr, arg, **kwargs): the dispatch on the type of the second
\* argument enters the mapping form for a dict and the single-value form for
\* any other object.
Call(p, expr, arg, kwargs) ==
    /\ call[p].pc = "idle"
    /\ call' = [call EXCEPT ![p] =
                  [IdleFrame EXCEPT !.pc = IF arg.kind = "scope" \/ arg.d.ty = "dict"
                                            THEN "reset" ELSE "single",
                                    !.expr0 = expr, !.arg0 = arg, !.kwargs = kwargs,
                                    !.expr = expr, !.scope = arg.s]]
    /\ UNCHANGED <<_leaf_cache, _used_tokens, interp, tc, ml>>

CallAny(p) ==
    /\ call[p].pc = "idle"
    /\ IF Concurrent
       THEN \E expr \in ConcExprs, d \in {Val("list", 0), Val("int", 1)} :
               \E arg \in {ScopeArg(T :> d), ValueArg(d)} : Call(p, expr, arg, NoKwargs)
       ELSE \E expr \in CallExprs, kwargs \in CallKwargs :
               \/ \E d \in ScopesFor(expr) : Call(p, expr, ScopeArg(d), kwargs)
               \/ \E o \in TData \cup {DictData} : Call(p, expr, ValueArg(o), kwargs)

ComputeSingle(p) == call[p].pc = "single" /\ Apply(p, step(Load(p), interp))

ResetLeaves(p) == call[p].pc = "reset" /\ Apply(p, step(Load(p), interp))

SwapResources(p) == call[p].pc = "swap" /\ Apply(p, step(Load(p), interp))

PreCompute(p) == call[p].pc = "pre" /\ Apply(p, step(Load(p), interp))

Optimize(p) == call[p].pc = "opt" /\ Apply(p, step(Load(p), interp))

DriverRound(p) == call[p].pc = "drive" /\ Apply(p, step(Load(p), interp))

PostCompute(p) == call[p].pc = "post" /\ Apply(p, step(Load(p), interp))

Next ==
    \/ \E e \in {T, Map(T)} : MakeleafCall(e, MaxPreLeaf)
    \/ \E p \in DOMAIN call : CallAny(p)
    \/ \E p \in DOMAIN call : ComputeSingle(p)
    \/ \E p \in DOMAIN call : ResetLeaves(p)
    \/ \E p \in DOMAIN call : SwapResources(p)
    \/ \E p \in DOMAIN call : PreCompute(p)
    \/ \E p \in DOMAIN call : Optimize(p)
    \/ \E p \in DOMAIN call : DriverRound(p)
    \/ \E p \in DOMAIN call : PostCompute(p)

Spec == Init /\ [][Next]_vars


(***************************************************************************)
(* Direct use of the leaf allocator: makeleaf and _reset_leaves called in  *)
(* any order, as in the doctest of makeleaf.                               *)
(***************************************************************************)
LeafArgs ==
    {T, Map(T), Map(Map(T)), Symbol("t", "var", 0), Reduce(T), Reduce(Map(T)),
     Tolist(T), Symbol("_", "var", NoToken)}

\* A direct call _reset_leaves().
ResetCall ==
    /\ ml.n < MaxLeafCalls
    /\ _leaf_cache' = _reset_leaves(EmptyCtx).cache
    /\ _used_tokens' = _reset_leaves(EmptyCtx).used
    /\ ml' = [fn |-> "_reset_leaves", n |-> ml.n + 1, arg |-> NoExpr, ret |-> NoExpr,
              hit |-> FALSE, hist |-> <<>>]
    /\ UNCHANGED <<call, interp, tc>>

NextLeaf ==
    \/ \E e \in LeafArgs : MakeleafCall(e, MaxLeafCalls)
    \/ ResetCall

SpecLeaf == Init /\ [][NextLeaf]_vars

(***************************************************************************)
(* Two threads calling compute at the same time.                           *)
(***************************************************************************)
InitConc ==
    /\ _leaf_cache = EmptyMap
    /\ _used_tokens = {}
    /\ call = [p \in {1, 2} |-> IdleFrame]
    /\ interp \in Interpreters
    /\ tc = NoTC
    /\ ml = NoML

SpecConc == InitConc /\ [][Next]_vars

(***************************************************************************)
(* Direct use of the type-break detector.                                  *)
(***************************************************************************)
RECURSIVE SeqsUpTo(_, _)
SeqsUpTo(S, n) ==
    IF n = 0 THEN {<<>>}
    ELSE LET shorter == SeqsUpTo(S, n - 1)
         IN  shorter \cup {Append(q, x) : q \in shorter, x \in S}

TCValues == {Val(ty, 0) : ty \in {"int", "bool", "list", "iter", "sql", "NoneType"}}

InitTC ==
    /\ _leaf_cache = EmptyMap
    /\ _used_tokens = {}
    /\ call = [p \in {1} |-> IdleFrame]
    /\ interp \in Interpreters
    /\ ml = NoML
    /\ \E old \in SeqsUpTo(TCValues, MaxLen), new \in SeqsUpTo(TCValues, MaxLen) :
           tc = [old |-> old, new |-> new, res |-> FALSE, done |-> FALSE]

\* A call type_change(old, new).
TypeChangeCall ==
    /\ ~ tc.done
    /\ tc' = [tc EXCEPT !.res = type_change(tc.old, tc.new), !.done = TRUE]
    /\ UNCHANGED <<_leaf_cache, _used_tokens, call, interp, ml>>

NextTC == TypeChangeCall

SpecTC == InitTC /\ [][NextTC]_vars

(***************************************************************************)
(* C4.  Within one evaluation a second makeleaf of an expression that was  *)
(* allocated earlier returns the symbol of the earlier call and changes    *)
(* neither the cache nor the used (name, token) set.                       *)
(***************************************************************************)
AllocatedAs(hist, e) == {hist[i][2] : i \in {j \in 1..Len(hist) : hist[j][1] = e}}

\* C4: every makeleaf(e) step for an e allocated since the last reset returns
\* the earlier symbol and leaves _leaf_cache and _used_tokens as they were.
C4_RepeatIsStable ==
    [][(ml'.fn = "makeleaf" /\ ml'.n = ml.n + 1 /\ AllocatedAs(ml.hist, ml'.arg) # {})
         => /\ AllocatedAs(ml.hist, ml'.arg) = {ml'.ret}
            /\ _leaf_cache' = _leaf_cache
            /\ _used_tokens' = _used_tokens]_vars

\* a repeated request made after two other expressions were allocated
C4_Witness ==
    /\ ml.fn = "makeleaf"
    /\ ml.hit
    /\ Len(ml.hist) >= 3
    /\ ml.hist[1][1] = ml.arg
    /\ ml.hist[1][2] = ml.ret

(***************************************************************************)
(* C5.  Within one evaluation no (name, token) pair is assigned twice, and *)
(* expressions sharing a display name get the tokens None, 0, 1, 2, ... in *)
(* the order of allocation.                                                *)
(***************************************************************************)
NameToken(sym) == <<sym.name, sym.tok>>

DisplayName(e) == IF e.name = "" THEN "_" ELSE e.name

Compatible(n, o) ==
    \/ n = o
    \/ n = "bool" /\ o = "int"
    \/ \E c \in {"list", "tuple"} : {n, o} = {c, "iter"}

Primitive(x) == x.ty \in {"int", "bool"}

PolicyAligned(old, new) ==
    IF (\A i \in 1..Len(old) : Primitive(old[i])) /\ (\A i \in 1..Len(new) : Primitive(new[i]))
    THEN FALSE
    ELSE IF Len(old) # Len(new) THEN TRUE
    ELSE \E i \in 1..Len(old) : ~ Compatible(new[i].ty, old[i].ty)

\* C6 as amended: type_change follows the policy with the values aligned by
\* their position in the lists as given (it does no ordering of its own).
C6_PolicyByPosition ==
    tc.done => tc.res = PolicyAligned(tc.old, tc.new)

\* C6 as stated: the policy with both lists first put in the canonical order
\* of their runtime types.
C6_PolicyByCanonicalOrder ==
    tc.done => tc.res = PolicyAligned(sorted_by_type(interp, tc.old),
                                      sorted_by_type(interp, tc.new))

\* a call on two non-primitive lists of equal size, one pair a container
\* against a lazy sequence
C6_Witness ==
    /\ tc.done
    /\ Len(tc.old) = 2 /\ Len(tc.new) = 2
    /\ tc.old[1].ty = "list" /\ tc.new[1].ty = "iter"
    /\ tc.old[2].ty = "int" /\ tc.new[2].ty = "bool"
    /\ ~ tc.res


(***************************************************************************)
(* C1.  Every round of the driver returns or shrinks the expression.       *)
(***************************************************************************)
FreeSymbols(e) == {x \in _subterms(e) : IsSymbol(x)}

LeavesBound(F) == \A i \in 1..Len(_leaves(F.expr)) : _leaves(F.expr)[i] \in DOMAIN F.scope

\* thread p is in the driver with every leaf bound and optimize at its default,
\* and the step is a round of that driver
C1_Round(p) ==
    /\ call[p].pc = "drive"
    /\ call[p].kwargs.optimize = "absent"
    /\ LeavesBound(call[p])
    /\ call'[p] # call[p]

C1_Returns(p) == call'[p].pc = "post" /\ call'[p].via \in {"compute_down", "key"}

C1_Shrinks(p) ==
    /\ call'[p].pc = "drive"
    /\ call'[p].rounds = call[p].rounds + 1
    /\ Size(call'[p].expr) < Size(call[p].expr)

C1_Raises(p) == call'[p].pc = "done" /\ call'[p].err # ""

\* C1 as stated: every such round returns via compute_down, returns because
\* the expression is a scope key, or recurses on a strictly smaller expression.
C1_EveryRoundReturnsOrShrinks ==
    [][\A p \in DOMAIN call : C1_Round(p) => (C1_Returns(p) \/ C1_Shrinks(p))]_vars

\* C1 as amended: a round may also end in an exception raised in it; so the
\* number of rounds made is below the size of the expression the driver was
\* given, and the driver returns or raises.
C1_EveryRoundReturnsShrinksOrRaises ==
    /\ [][\A p \in DOMAIN call :
            C1_Round(p) => (C1_Returns(p) \/ C1_Shrinks(p) \/ C1_Raises(p))]_vars
    /\ [](\A p \in DOMAIN call :
            (call[p].pc = "drive" /\ call[p].kwargs.optimize = "absent" /\ LeavesBound(call[p]))
              => call[p].rounds + Size(call[p].expr) <= Size(call[p].top))

\* after one round of the driver on a four-node expression two nodes remain
C1_Witness ==
    \E p \in DOMAIN call :
        /\ call[p].pc = "drive"
        /\ call[p].kwargs.optimize = "absent"
        /\ LeavesBound(call[p])
        /\ call[p].rounds = 1
        /\ Size(call[p].top) = 4
        /\ Size(call[p].expr) = 2

(***************************************************************************)
(* C2.  The allocator state of a compute call is cleared when the call     *)
(* starts and not by an evaluation nested in it.                           *)
(***************************************************************************)
\* C2: the step that starts the call leaves the allocator empty, and no
\* round of the driver of a call removes a cache entry or a used pair.
C2_NotClearedByNested ==
    [][\A p \in DOMAIN call :
          /\ (call[p].pc = "reset" /\ call'[p].pc = "swap")
                => (DOMAIN _leaf_cache' = {} /\ _used_tokens' = {})
          /\ (call[p].pc = "drive" /\ call'[p] # call[p])
                => /\ \A e \in DOMAIN _leaf_cache :
                        e \in DOMAIN _leaf_cache' /\ _leaf_cache'[e] = _leaf_cache[e]
                   /\ _used_tokens \subseteq _used_tokens']_vars

(***************************************************************************)
(* C3.  Two concurrent compute calls do not share allocator state.         *)
(***************************************************************************)
RECURSIVE RunUntil(_, _, _, _)
RunUntil(F, r, pc, rounds) ==
    IF F.pc = "done" \/ (F.pc = pc /\ F.rounds = rounds) THEN F
    ELSE RunUntil(step(F, r), r, pc, rounds)

\* the call of frame F made alone, taken to the stage and round F is at
Alone(F, r) ==
    RunUntil([IdleFrame EXCEPT !.pc = IF F.arg0.kind = "scope" \/ F.arg0.d.ty = "dict"
                                      THEN "reset" ELSE "single",
                               !.expr0 = F.expr0, !.arg0 = F.arg0,
                               !.kwargs = F.kwargs, !.expr = F.expr0, !.scope = F.arg0.s],
             r, F.pc, F.rounds)

\* C3: at every stage each call holds the expression, the leaf names and the
\* values it holds at that stage when it runs alone.
C3_NamedAsWhenAlone ==
    \A p \in DOMAIN call :
        call[p].pc \in {"drive", "post", "done"}
          => /\ Alone(call[p], interp).pc = call[p].pc
             /\ Alone(call[p], interp).expr = call[p].expr
             /\ Alone(call[p], interp).scope = call[p].scope
             /\ Alone(call[p], interp).val = call[p].val

(***************************************************************************)
(* C7.  The pre_compute and optimize options of a call.                    *)
(***************************************************************************)
LogHas(F, what, which) == \E i \in 1..Len(F.ctx.log) : F.ctx.log[i] = <<what, which>>

HasSeq(e) == \E x \in _subterms(e) : x.op = "seq"

\* C7: in a call with a falsy option the hook is never applied, and in a call
\* with an override the default hook is never applied (calls whose handlers
\* start no nested compute).
C7_OptionsHoldForTheCall ==
    \A p \in DOMAIN call :
        ~ HasSeq(call[p].expr0) =>
          /\ call[p].kwargs.pre_compute = "falsy"
                => ~ \E w \in {"default", "override"} : LogHas(call[p], "pre_compute", w)
          /\ call[p].kwargs.optimize = "falsy"
                => ~ \E w \in {"default", "override", "override_ni"} :
                        LogHas(call[p], "optimize", w)
          /\ call[p].kwargs.pre_compute = "override"
                => ~ LogHas(call[p], "pre_compute", "default")
          /\ call[p].kwargs.optimize \in {"override", "override_ni"}
                => ~ LogHas(call[p], "optimize", "default")

(***************************************************************************)
(* C8.  The single-value form against the mapping form.                    *)
(***************************************************************************)
TheSymbol(e) == CHOOSE x \in FreeSymbols(e) : TRUE

SameOutcome(F, G) == F.val = G.val /\ F.err = G.err /\ F.ctx.log = G.ctx.log

\* C8 as stated: a finished call compute(expr, d) on an expression with one
\* free symbol s has the result, failure and handler log of compute(expr, {s: d}).
C8_SingleEqualsMapping ==
    \A p \in DOMAIN call :
        (/\ call[p].pc = "done"
         /\ call[p].arg0.kind = "value"
         /\ Cardinality(FreeSymbols(call[p].expr0)) = 1)
          => SameOutcome(call[p],
                         compute(call[p].expr0, TheSymbol(call[p].expr0) :> call[p].arg0.d,
                                 call[p].kwargs, interp, EmptyCtx))

\* C8 as amended: the same for every data value d that is not a dict.
C8_SingleEqualsMappingForNonDict ==
    \A p \in DOMAIN call :
        (/\ call[p].pc = "done"
         /\ call[p].arg0.kind = "value"
         /\ call[p].arg0.d.ty # "dict"
         /\ Cardinality(FreeSymbols(call[p].expr0)) = 1)
          => SameOutcome(call[p],
                         compute(call[p].expr0, TheSymbol(call[p].expr0) :> call[p].arg0.d,
                                 call[p].kwargs, interp, EmptyCtx))

\* a finished single-value call with an override that took two rounds
C8_Witness ==
    \E p \in DOMAIN call :
        /\ call[p].pc = "done"
        /\ call[p].arg0.kind = "value"
        /\ call[p].arg0.d.ty = "list"
        /\ Cardinality(FreeSymbols(call[p].expr0)) = 1
        /\ call[p].kwargs.pre_compute = "override"
        /\ call[p].rounds >= 2
        /\ call[p].err = ""

(***************************************************************************)
(* C9.  The single-value form on zero or several free symbols.             *)
(***************************************************************************)
\* C9: the step of the single-value form on an expression without exactly
\* one free symbol raises ValueError, applies no handler and leaves the
\* allocator as it was; such a call ends with that error and an empty log.
C9_AmbiguousBindingFails ==
    /\ [][\A p \in DOMAIN call :
            (/\ call[p].pc = "single"
             /\ Cardinality(FreeSymbols(call[p].expr0)) # 1
             /\ call'[p] # call[p])
              => /\ call'[p].pc = "done"
                 /\ call'[p].err = "ValueError"
                 /\ call'[p].ctx.log = <<>>
                 /\ _leaf_cache' = _leaf_cache
                 /\ _used_tokens' = _used_tokens]_vars
    /\ [](\A p \in DOMAIN call :
            (/\ call[p].pc = "done"
             /\ call[p].arg0.kind = "value"
             /\ call[p].arg0.d.ty # "dict"
             /\ Cardinality(FreeSymbols(call[p].expr0)) # 1)
              => call[p].err = "ValueError" /\ call[p].ctx.log = <<>>)

\* a single-value call on two free symbols has failed and the allocator still
\* holds what an earlier makeleaf put there
C9_Witness ==
    \E p \in DOMAIN call :
        /\ call[p].pc = "done"
        /\ call[p].arg0.kind = "value"
        /\ Cardinality(FreeSymbols(call[p].expr0)) = 2
        /\ call[p].err = "ValueError"
        /\ DOMAIN _leaf_cache # {}

(***************************************************************************)
(* C10.  The mapping form on an expression without free symbols.           *)
(***************************************************************************)
C10_Case(F) ==
    /\ F.pc = "done"
    /\ F.arg0.kind = "scope"
    /\ FreeSymbols(F.expr0) = {}
    /\ F.kwargs = NoKwargs

TrueLeaf(e) == e.op = "Symbol" /\ e.ins = <<>>

\* C11: a round of the driver on a symbol without inputs that is no key of
\* the scope returns that symbol, with no failure and no leaf allocated.
C11_UnboundLeafPassesThrough ==
    [][\A p \in DOMAIN call :
          (/\ call[p].pc = "drive"
           /\ TrueLeaf(call[p].expr)
           /\ call[p].expr \notin DOMAIN call[p].scope
           /\ call'[p] # call[p])
            => /\ call'[p].pc = "post"
               /\ call'[p].err = ""
               /\ call'[p].val = VX(call[p].expr)
               /\ _leaf_cache' = _leaf_cache]_vars


(***************************************************************************)
(* C12.  Unsupported signals of compute_down and optimize.                 *)
(***************************************************************************)
LeafData(F) == [i \in 1..Len(_leaves(F.expr)) |-> get(F.scope, _leaves(F.expr)[i])]

DownUnsupported(F) ==
    /\ F.expr \notin DOMAIN F.scope
    /\ compute_down(F.expr, LeafData(F), F.kw, F.ctx).err = "NotImplementedError"

OptimizeUnsupported(F) ==
    /\ F.kwargs.optimize # "falsy"
    /\ optimize(Hook(F.kwargs.optimize), F.expr,
                values([e \in {k \in DOMAIN F.scope : Contains(F.expr, k)} |-> F.scope[e]])).err
         = "NotImplementedError"

\* the round of thread p ends as the bottom-up evaluation bu of its
\* expression and scope ends: with the failure of bu, or with the driver
\* holding the expression and the keys bu returned
C12_FollowedBy(p, bu) ==
    IF bu.err # ""
    THEN call'[p].pc = "done" /\ call'[p].err = bu.err
    ELSE /\ call'[p].err \in {"", "KeyError"}
         /\ call'[p].err = ""
              => /\ call'[p].pc = "drive"
                 /\ call'[p].expr = bu.expr
                 /\ DOMAIN call'[p].scope = DOMAIN bu.scope
                 /\ _leaf_cache' = bu.ctx.cache

\* C12: a round in which compute_down signals unsupported goes on with
\* bottom_up_until_type_break on the same expression and scope, and the
\* optimize stage signalling unsupported keeps the expression and goes on to
\* the driver without a failure.
C12_UnsupportedIsAbsorbed ==
    [][\A p \in DOMAIN call :
          /\ (call[p].pc = "drive" /\ DownUnsupported(Load(p)) /\ call'[p] # call[p])
                => C12_FollowedBy(p, bottom_up_until_type_break(
                                         call[p].expr, call[p].scope, interp, Load(p).ctx))
          /\ (call[p].pc = "opt" /\ OptimizeUnsupported(call[p]) /\ call'[p] # call[p])
                => /\ call'[p].pc = "drive"
                   /\ call'[p].err = ""
                   /\ call'[p].expr = call[p].expr]_vars

\* a call whose optimize hook signalled unsupported and whose compute_down
\* had no implementation has returned a value after a later round
C12_Witness ==
    \E p \in DOMAIN call :
        /\ call[p].pc = "done"
        /\ call[p].err = ""
        /\ call[p].kwargs.optimize = "override_ni"
        /\ call[p].rounds >= 1
        /\ call[p].via = "key"


(***************************************************************************)
(* C13.  The Resource Binder keeps the caller's bindings.                  *)
(***************************************************************************)
\* C13: the Resource Binder step leaves every entry of the scope it was given
\* in the resulting scope with the value the caller supplied, also for a key
\* that an attached resource is bound to as well.
C13_CallerBindingsWin ==
    [][\A p \in DOMAIN call :
          (call[p].pc = "swap" /\ call'[p] # call[p])
            => /\ call'[p].pc = "pre"
               /\ \A k \in DOMAIN call[p].scope :
                     k \in DOMAIN call'[p].scope /\ call'[p].scope[k] = call[p].scope[k]]_vars

\* the binder has run on an expression with a resource named like a symbol
\* the caller bound to other data, and the scope holds the caller's value
C13_Witness ==
    \E p \in DOMAIN call :
        /\ call[p].pc = "pre"
        /\ call[p].expr0 = Bin(T, DataT0)
        /\ call[p].arg0.kind = "scope"
        /\ T \in DOMAIN call[p].arg0.s
        /\ call[p].arg0.s[T] # DataT0.dat
        /\ call[p].scope[T] = call[p].arg0.s[T]
        /\ call[p].expr = Bin(T, T)


(***************************************************************************)
(* C14.  Scope entries the expression does not refer to.                   *)
(***************************************************************************)
\* the values an entry may be given
ExtraValues == {Val("list", 1), Val("iter", 1), Val("sql", 0)}

Without(d, k) == [x \in DOMAIN d \ {k} |-> d[x]]

SameResult(F, G) == F.val = G.val /\ F.err = G.err

SameReduction(a, b) == a.expr = b.expr /\ a.scope = b.scope /\ a.err = b.err

OnlySymbols(e) == \A x \in _subterms(e) : x.ins = <<>> => x.op = "Symbol"

StageOrder ==
    [reset |-> {"swap"}, swap |-> {"pre"}, pre |-> {"opt"}, opt |-> {"drive"},
     drive |-> {"drive", "post", "done"}, post |-> {"done"}]

Count(F, what) == Cardinality({i \in 1..Len(F.ctx.log) : F.ctx.log[i][1] = what})

\* the handler log of a frame is as the order of the stages makes it: nothing
\* before pre_compute, pre_compute once per bound value and nothing else
\* before optimize, no compute_down or compute_up before the driver, and one
\* post_compute, the last entry, once the call has returned
C15_LogInOrder(F) ==
    /\ F.pc \in {"reset", "swap", "pre"} => F.ctx.log = <<>>
    /\ F.pc = "opt"
         => /\ \A i \in 1..Len(F.ctx.log) : F.ctx.log[i][1] = "pre_compute"
            /\ F.kwargs.pre_compute # "falsy" => Len(F.ctx.log) = Cardinality(DOMAIN F.scope)
    /\ F.pc \in {"reset", "swap", "pre", "opt"}
         => Count(F, "compute_down") + Count(F, "compute_up") = 0
    /\ (F.pc = "drive" /\ F.rounds = 0 /\ F.kwargs.optimize # "falsy")
         => /\ F.ctx.log # <<>>
            /\ F.ctx.log[Len(F.ctx.log)][1] = "optimize"
            /\ Count(F, "optimize") = 1
    /\ Count(F, "post_compute") = IF F.pc = "done" /\ F.err = "" THEN 1 ELSE 0
    /\ (F.pc = "done" /\ F.err = "") => F.ctx.log[Len(F.ctx.log)][1] = "post_compute"

\* C15: every call of the mapping form goes through the stages reset, Resource
\* Binder, pre_compute, optimize, driver, post_compute in this order (a
\* failure ending it), the reset leaves the allocator empty, and the log of
\* handler applications of a call whose handlers start no nested compute is
\* in that order, with post_compute applied once, last.
C15_StagesInOrder ==
    /\ [][\A p \in DOMAIN call :
            (call[p].pc \in DOMAIN StageOrder /\ call'[p] # call[p])
              => /\ call'[p].pc \in StageOrder[call[p].pc]
                 /\ call'[p].pc = "done" => (call[p].pc = "post" \/ call'[p].err # "")
                 /\ call[p].pc = "reset" => (DOMAIN _leaf_cache' = {} /\ _used_tokens' = {})]_vars
    /\ [](\A p \in DOMAIN call : ~ HasSeq(call[p].expr0) => C15_LogInOrder(call[p]))

\* a call with two bound values has returned after a second round
C15_Witness ==
    \E p \in DOMAIN call :
        /\ call[p].pc = "done"
        /\ call[p].err = ""
        /\ call[p].arg0.kind = "scope"
        /\ Cardinality(DOMAIN call[p].arg0.s) = 2
        /\ ~ HasSeq(call[p].expr0)
        /\ call[p].rounds >= 1
        /\ Count(call[p], "compute_up") >= 2
        /\ Count(call[p], "pre_compute") >= 2


(***************************************************************************)
(* C16.  The arguments the Type-Break Detector is given.                   *)
(***************************************************************************)
\* the driver in frame F is about to call bottom_up_until_type_break on a
\* node with inputs
EvaluatorRuns(F) ==
    /\ F.pc = "drive"
    /\ _inputs(F.expr) # <<>>
    /\ DownUnsupported(F)

\* the values of the merged sub-scope of the top node, sorted by type
NewValues(F, r) ==
    sorted_by_type(r, values(bottom_up_inputs(unique(_inputs(F.expr)), F.scope, r, F.ctx).scope))

\* the values the leaves of the node are bound to, sorted by type
OriginalValues(F, r) == sorted_by_type(r, LeafData(F))

NewIsSubtypeOfOriginal(new, orig) ==
    /\ Len(new) = Len(orig)
    /\ \A i \in 1..Len(new) : issubtype(new[i].ty, orig[i].ty)

C16_AtNode(F, r, bu) ==
    bu.err = ""
      => /\ bu.broke = type_change(OriginalValues(F, r), NewValues(F, r))
         /\ NewIsSubtypeOfOriginal(NewValues(F, r), OriginalValues(F, r)) => ~ bu.broke

\* C16: at the node the evaluator is called on, a break is reported exactly
\* when type_change(old, new) holds with the original leaf values as old and
\* the merged sub-scope values as new; so there is no break when each new
\* value's type is a subtype of the aligned original value's type.
C16_OriginalIsOld ==
    \A p \in DOMAIN call :
        EvaluatorRuns(Load(p))
          => C16_AtNode(Load(p), interp,
                        bottom_up_until_type_break(call[p].expr, call[p].scope,
                                                   interp, Load(p).ctx))


(***************************************************************************)
(* C17.  A node is evaluated only on materialized inputs.                  *)
(***************************************************************************)
\* sub is the reduction of the inputs of the node in frame F: when it has not
\* failed and no break is detected at the node, every reduced input is a
\* leaf without inputs and a key of the merged scope.
C17_AtNode(F, r, sub) ==
    (sub.err = "" /\ ~ bottom_up_break(r, sub.scope, LeafData(F)))
      => \A i \in 1..Len(sub.exprs) :
            sub.exprs[i].ins = <<>> /\ sub.exprs[i] \in DOMAIN sub.scope

\* C17: whenever the evaluator decides to evaluate the node it was called on,
\* every input of new_expr is a materialized leaf bound in the merged scope,
\* and the evaluator does not fail looking one up.
C17_EvaluatedOnLeavesOnly ==
    \A p \in DOMAIN call :
        /\ EvaluatorRuns(Load(p))
              => C17_AtNode(Load(p), interp,
                            bottom_up_inputs(unique(_inputs(call[p].expr)), call[p].scope,
                                             interp, Load(p).ctx))
        /\ (call[p].pc = "done" /\ LeavesBound(call[p])) => call[p].err # "KeyError"


(***************************************************************************)
(* C18.  The scope the evaluator returns binds the leaves it returns.      *)
(***************************************************************************)
KeysAreLeaves(expr, scope) == DOMAIN scope = Range(_leaves(expr))

\* C18: for a driver state whose leaves are all bound, the pair the evaluator
\* returns has the leaves of the expression as the keys of its scope; the
\* round then fails on no lookup of a leaf, and the driver's next round holds
\* such a pair.
C18_ReturnedScopeBindsLeaves ==
    /\ [](\A p \in DOMAIN call :
            /\ (call[p].pc = "drive" /\ LeavesBound(call[p])
                  /\ call[p].expr \notin DOMAIN call[p].scope)
                 => LET bu == bottom_up_until_type_break(call[p].expr, call[p].scope,
                                                         interp, Load(p).ctx)
                    IN  bu.err = "" => KeysAreLeaves(bu.expr, bu.scope)
            /\ (call[p].pc = "drive" /\ call[p].via = "recurse")
                 => KeysAreLeaves(call[p].expr, call[p].scope))
    /\ [][\A p \in DOMAIN call :
            (/\ call[p].pc = "drive"
             /\ LeavesBound(call[p])
             /\ DownUnsupported(Load(p))
             /\ bottom_up_until_type_break(call[p].expr, call[p].scope,
                                           interp, Load(p).ctx).err = ""
             /\ call'[p] # call[p])
              => call'[p].pc = "drive" /\ call'[p].err = ""]_vars

\* the evaluator stopped at a break under a node with two inputs, and the
\* driver holds the remaining expression with both of its leaves bound
C18_Witness ==
    \E p \in DOMAIN call :
        /\ call[p].pc = "drive"
        /\ call[p].via = "recurse"
        /\ call[p].rounds = 1
        /\ Size(call[p].expr) >= 3
        /\ Cardinality(DOMAIN call[p].scope) = 2
        /\ KeysAreLeaves(call[p].expr, call[p].scope)


(***************************************************************************)
(* C19.  The Resource Binder and the data attached to the leaves.          *)
(***************************************************************************)
PlainSymbol(t) == Symbol(t.name, t.ds, NoToken)

\* C19: the Resource Binder step replaces every leaf carrying data by the
\* plain symbol of its name and shape, and the resulting scope binds that
\* symbol to the data of that leaf unless the caller had bound the symbol.
C19_NoResourceLost ==
    [][\A p \in DOMAIN call :
          (call[p].pc = "swap" /\ call'[p] # call[p])
            => /\ _resources(call'[p].expr) = EmptyMap
               /\ \A t \in DOMAIN _resources(call[p].expr) :
                     /\ Contains(call'[p].expr, PlainSymbol(t))
                     /\ PlainSymbol(t) \in DOMAIN call'[p].scope
                     /\ PlainSymbol(t) \notin DOMAIN call[p].scope
                          => call'[p].scope[PlainSymbol(t)] = t.dat]_vars

====
